---- MODULE Spec2Model ----
(***************************************************************************)
(* Sales dashboard (frontend/src/App.jsx) and upload service               *)
(* (backend/server.js).                                                    *)
(*                                                                         *)
(* Three specifications share the module:                                  *)
(*   SpecAggregate  createChartData applied to bounded row sequences       *)
(*   Spec           the Dashboard component: file selections, in-flight    *)
(*                  parses, the data state and the charts derived from it  *)
(*   SpecUpload     the POST /upload handler                               *)
(***************************************************************************)
EXTENDS Integers, Sequences, FiniteSets

VARIABLES rows, result, selected, pending, data, expressMajor, req, sent

vars == <<rows, result, selected, pending, data, expressMajor, req, sent>>

(***************************************************************************)
(* Bounds of the model.                                                    *)
(***************************************************************************)
MaxRows == 3
MaxSelect == 2
MaxBytes == 4

(***************************************************************************)
(* Text is a sequence of one-character strings.                            *)
(***************************************************************************)
Digit == <<"0", "1", "2", "3", "4", "5", "6", "7", "8", "9">>

IsDigit(c) == \E i \in 1..10 : Digit[i] = c

DigitValue(c) == (CHOOSE i \in 1..10 : Digit[i] = c) - 1

RECURSIVE Gcd(_, _)
Gcd(a, b) == IF b = 0 THEN a ELSE Gcd(b, a % b)

Abs(n) == IF n < 0 THEN -n ELSE n

(***************************************************************************)
(* JavaScript values.  A number is NaN, an infinity, or the rational n/d   *)
(* in lowest terms with d > 0 (the cells of the model are integers, so     *)
(* sums are exact; a quotient is kept exact instead of rounded to a        *)
(* double).                                                                *)
(***************************************************************************)
Undefined == [t |-> "undefined", n |-> 0, d |-> 1, s |-> <<>>]

NaN == [t |-> "nan", n |-> 0, d |-> 1, s |-> <<>>]

Infinity(sign) == [t |-> "inf", n |-> sign, d |-> 1, s |-> <<>>]

Rat(p, q) ==
    LET g == Gcd(Abs(p), Abs(q))
        sg == IF q < 0 THEN -1 ELSE 1
    IN [t |-> "num", n |-> sg * (p \div g), d |-> sg * (q \div g), s |-> <<>>]

Num(k) == [t |-> "num", n |-> k, d |-> 1, s |-> <<>>]

Str(chars) == [t |-> "str", n |-> 0, d |-> 1, s |-> chars]

(* Number::toString of a non-negative integer *)
RECURSIVE NatToString(_)
NatToString(k) ==
    IF k < 10 THEN <<Digit[k + 1]>>
    ELSE NatToString(k \div 10) \o <<Digit[(k % 10) + 1]>>

(* ToString, as the + operator applies it to a non-text operand.  The sums *)
(* of the model only ever convert integers, NaN and undefined.             *)
ToString(v) ==
    CASE v.t = "str" -> v.s
      [] v.t = "undefined" -> <<"u", "n", "d", "e", "f", "i", "n", "e", "d">>
      [] v.t = "nan" -> <<"N", "a", "N">>
      [] v.t = "inf" -> (IF v.n < 0 THEN <<"-">> ELSE <<>>)
                         \o <<"I", "n", "f", "i", "n", "i", "t", "y">>
      [] v.t = "num" ->
           IF v.n < 0 THEN <<"-">> \o NatToString(-v.n) ELSE NatToString(v.n)

RECURSIVE DigitsValue(_, _)
DigitsValue(chars, acc) ==
    IF chars = <<>> THEN acc
    ELSE DigitsValue(Tail(chars), 10 * acc + DigitValue(Head(chars)))

(* StringToNumber: the empty text is 0, a run of digits is its value, any  *)
(* other text of the model is NaN.                                         *)
StringToNumber(chars) ==
    IF \A i \in 1..Len(chars) : IsDigit(chars[i])
    THEN Num(DigitsValue(chars, 0))
    ELSE NaN

(* ToNumber, as -, / and * apply it *)
ToNumber(v) ==
    CASE v.t = "str" -> StringToNumber(v.s)
      [] v.t = "undefined" -> NaN
      [] OTHER -> v

(* a + b : concatenation as soon as one operand is text *)
Plus(a, b) ==
    IF a.t = "str" \/ b.t = "str"
    THEN Str(ToString(a) \o ToString(b))
    ELSE LET x == ToNumber(a)
             y == ToNumber(b)
         IN CASE x.t = "nan" \/ y.t = "nan" -> NaN
              [] x.t = "inf" /\ y.t = "inf" -> IF x.n = y.n THEN x ELSE NaN
              [] x.t = "inf" -> x
              [] y.t = "inf" -> y
              [] OTHER -> Rat(x.n * y.d + y.n * x.d, x.d * y.d)

(* a - b *)
Minus(a, b) ==
    LET x == ToNumber(a)
        y == ToNumber(b)
    IN CASE x.t = "nan" \/ y.t = "nan" -> NaN
         [] x.t = "inf" /\ y.t = "inf" -> IF x.n = y.n THEN NaN ELSE x
         [] x.t = "inf" -> x
         [] y.t = "inf" -> Infinity(-y.n)
         [] OTHER -> Rat(x.n * y.d - y.n * x.d, x.d * y.d)

Sign(k) == IF k < 0 THEN -1 ELSE 1

(* a / b : x/0 is an infinity, 0/0 is NaN *)
Div(a, b) ==
    LET x == ToNumber(a)
        y == ToNumber(b)
    IN CASE x.t = "nan" \/ y.t = "nan" -> NaN
         [] x.t = "inf" /\ y.t = "inf" -> NaN
         [] x.t = "inf" -> Infinity(x.n * Sign(y.n))
         [] y.t = "inf" -> Num(0)
         [] y.n = 0 -> IF x.n = 0 THEN NaN ELSE Infinity(Sign(x.n))
         [] OTHER -> Rat(x.n * y.d, x.d * y.n)

(* a * b *)
Times(a, b) ==
    LET x == ToNumber(a)
        y == ToNumber(b)
    IN CASE x.t = "nan" \/ y.t = "nan" -> NaN
         [] x.t = "inf" /\ y.t = "inf" -> Infinity(x.n * y.n)
         [] x.t = "inf" -> IF y.n = 0 THEN NaN ELSE Infinity(x.n * Sign(y.n))
         [] y.t = "inf" -> IF x.n = 0 THEN NaN ELSE Infinity(y.n * Sign(x.n))
         [] OTHER -> Rat(x.n * y.n, x.d * y.d)

(* a === b *)
StrictEquals(a, b) == a.t # "nan" /\ a = b

(* String.prototype.split(sep)[0] : the text before the first sep *)
RECURSIVE SplitFirst(_, _)
SplitFirst(chars, sep) ==
    IF chars = <<>> \/ Head(chars) = sep THEN <<>>
    ELSE <<Head(chars)>> \o SplitFirst(Tail(chars), sep)

(* String.prototype.startsWith *)
StartsWith(chars, prefix) ==
    /\ Len(prefix) <= Len(chars)
    /\ SubSeq(chars, 1, Len(prefix)) = prefix

(* [...new Set(seq)] : the distinct elements in first-occurrence order *)
RECURSIVE SetSpread(_)
SetSpread(seq) ==
    IF seq = <<>> THEN <<>>
    ELSE LET init == SetSpread(SubSeq(seq, 1, Len(seq) - 1))
             last == seq[Len(seq)]
         IN IF \E i \in 1..Len(init) : init[i] = last
            THEN init
            ELSE Append(init, last)

(* Array.prototype.reduce((sum, item) => sum + item[field], 0) *)
RECURSIVE ReducePlus(_, _, _)
ReducePlus(items, field, sum) ==
    IF items = <<>> THEN sum
    ELSE ReducePlus(Tail(items), field, Plus(sum, Head(items)[field]))

(***************************************************************************)
(* createChartData (App.jsx 60-201).  A row is a record of the four        *)
(* columns the function reads; an absent cell reads as undefined.          *)
(***************************************************************************)
Row(date, product, revenue, quantity) ==
    [Date |-> date, ProductName |-> product,
     TotalRevenue |-> revenue, QuantitySold |-> quantity]

dates(d) == [i \in 1..Len(d) |-> d[i].Date]

totalRevenue(d) == [i \in 1..Len(d) |-> d[i].TotalRevenue]

productsNotDeduplicated(d) == [i \in 1..Len(d) |-> d[i].ProductName]

products(d) == SetSpread([i \in 1..Len(d) |-> d[i].ProductName])

quantities(d) == [i \in 1..Len(d) |-> d[i].QuantitySold]

(* data.filter((item) => item["Product Name"] === product) *)
productData(d, product) ==
    SelectSeq(d, LAMBDA item : StrictEquals(item.ProductName, product))

averageRevenue(d) ==
    [i \in 1..Len(products(d)) |->
        LET product == products(d)[i]
            totalRevenueOf == ReducePlus(productData(d, product), "TotalRevenue", Num(0))
            totalQuantity == ReducePlus(productData(d, product), "QuantitySold", Num(0))
        IN Div(totalRevenueOf, totalQuantity)]

revenueVsQuantity(d) ==
    [i \in 1..Len(products(d)) |->
        LET product == products(d)[i]
        IN [x |-> ReducePlus(productData(d, product), "QuantitySold", Num(0)),
            y |-> ReducePlus(productData(d, product), "TotalRevenue", Num(0))]]

YearSuffix == <<"/", "2", "0", "2", "3">>

(* date.split("/")[0] + "/2023" *)
monthKey(date) == Plus(Str(SplitFirst(date.s, "/")), Str(YearSuffix))

months(d) == SetSpread([i \in 1..Len(d) |-> monthKey(dates(d)[i])])

(* data.filter((item) => item.Date.startsWith(month)).reduce(...) *)
monthData(d, month) ==
    SelectSeq(d, LAMBDA item : StartsWith(item.Date.s, month.s))

monthlyRevenue(d) ==
    [i \in 1..Len(months(d)) |->
        ReducePlus(monthData(d, months(d)[i]), "TotalRevenue", Num(0))]

growthOfOverCurrent(arr) ==
    [index \in 1..Len(arr) |->
        IF index = 1 THEN Num(0)
        ELSE Times(Div(Minus(arr[index], arr[index - 1]), arr[index]),
                   Num(100))]

growthOf(arr) ==
    [index \in 1..Len(arr) |->
        IF index = 1 THEN Num(0)
        ELSE Times(Div(Minus(arr[index], arr[index - 1]), arr[index - 1]),
                   Num(100))]

monthlyGrowth(d) == growthOf(monthlyRevenue(d))

productRevenueData(d) ==
    [i \in 1..Len(products(d)) |->
        ReducePlus(productData(d, products(d)[i]), "TotalRevenue", Num(0))]

quantitySoldData(d) ==
    [i \in 1..Len(products(d)) |->
        ReducePlus(productData(d, products(d)[i]), "QuantitySold", Num(0))]

(* date.split and item.Date.startsWith raise a TypeError when Date is      *)
(* undefined or is not text                                                *)
raisesTypeError(d) == \E i \in 1..Len(d) : d[i].Date.t # "str"

NoCharts ==
    [status |-> "none",
     revenueOverTime |-> [labels |-> <<>>, data |-> <<>>],
     productRevenueChart |-> [labels |-> <<>>, data |-> <<>>],
     quantitySoldChart |-> [labels |-> <<>>, data |-> <<>>],
     averageRevenueChart |-> [labels |-> <<>>, data |-> <<>>],
     scatterPlotData |-> [data |-> <<>>],
     monthlyGrowthChart |-> [labels |-> <<>>, data |-> <<>>]]

createChartData(d) ==
    IF raisesTypeError(d) THEN [NoCharts EXCEPT !.status = "TypeError"]
    ELSE
    [status |-> "returned",
     revenueOverTime |-> [labels |-> dates(d), data |-> totalRevenue(d)],
     productRevenueChart |-> [labels |-> products(d), data |-> productRevenueData(d)],
     quantitySoldChart |-> [labels |-> products(d), data |-> quantitySoldData(d)],
     averageRevenueChart |-> [labels |-> products(d), data |-> averageRevenue(d)],
     scatterPlotData |-> [data |-> revenueVsQuantity(d)],
     monthlyGrowthChart |-> [labels |-> months(d), data |-> monthlyGrowth(d)]]

(***************************************************************************)
(* The cells the row parsers deliver in the model: dates written           *)
(* M/D/YYYY, dates written M/YYYY, an absent date; two products and an     *)
(* absent product; amounts as numbers (spreadsheet cells) and as text      *)
(* (CSV fields).                                                           *)
(***************************************************************************)
Jan5 == <<"1", "/", "5", "/", "2", "0", "2", "3">>

Jan6 == <<"1", "/", "6", "/", "2", "0", "2", "3">>

Feb1 == <<"2", "/", "1", "/", "2", "0", "2", "3">>

Jan == <<"1", "/", "2", "0", "2", "3">>

Feb == <<"2", "/", "2", "0", "2", "3">>

DateCells == {Str(Jan5), Str(Jan), Str(Feb), Undefined}

ProductCells == {Str(<<"A">>), Str(<<"B">>), Undefined}

AmountCells ==
    {[revenue |-> Num(6), quantity |-> Num(2)],
     [revenue |-> Str(<<"4">>), quantity |-> Str(<<"2">>)]}

RowCells ==
    {Row(dt, pr, am.revenue, am.quantity) :
        dt \in DateCells, pr \in ProductCells, am \in AmountCells}

SeqsUpTo(S, k) == UNION {[1..m -> S] : m \in 0..k}

(***************************************************************************)
(* State of the other components while one specification runs.             *)
(***************************************************************************)
NullData == [isNull |-> TRUE, rows |-> <<>>]

NoRequest == [phase |-> "idle", hasFile |-> FALSE, buffer |-> <<>>]

DashboardIdle == selected = <<>> /\ pending = {} /\ data = NullData

ServerIdle == expressMajor = 4 /\ req = NoRequest /\ sent = <<>>

AggregateIdle == rows = <<>> /\ result = NoCharts

(***************************************************************************)
(* SpecAggregate: createChartData applied once to a row sequence.          *)
(***************************************************************************)
InitAggregate ==
    /\ rows \in SeqsUpTo(RowCells, MaxRows)
    /\ result = NoCharts
    /\ DashboardIdle
    /\ ServerIdle

Render ==
    /\ result.status = "none"
    /\ result' = createChartData(rows)
    /\ UNCHANGED <<rows, selected, pending, data, expressMajor, req, sent>>

NextAggregate == Render

SpecAggregate == InitAggregate /\ [][NextAggregate]_vars

(***************************************************************************)
(* The Dashboard component (App.jsx 29-58, 203).                           *)
(*                                                                         *)
(* A selected file is a name and a content.  The content is a table of     *)
(* cells as written in the file (dates and product names as text, amounts  *)
(* as integers) and whether the bytes are malformed: for a CSV file the    *)
(* last line is cut short after its first field, for a spreadsheet the     *)
(* workbook cannot be decoded.                                             *)
(***************************************************************************)
UpperCase == <<"A", "B", "C", "D", "E", "F", "G", "H", "I", "J", "K", "L", "M",
               "N", "O", "P", "Q", "R", "S", "T", "U", "V", "W", "X", "Y", "Z">>

LowerCase == <<"a", "b", "c", "d", "e", "f", "g", "h", "i", "j", "k", "l", "m",
               "n", "o", "p", "q", "r", "s", "t", "u", "v", "w", "x", "y", "z">>

(* String.prototype.toLowerCase *)
toLowerCase(chars) ==
    [i \in 1..Len(chars) |->
        IF \E k \in 1..26 : UpperCase[k] = chars[i]
        THEN LowerCase[CHOOSE k \in 1..26 : UpperCase[k] = chars[i]]
        ELSE chars[i]]

(* String.prototype.split(sep) : the segments between the separators *)
RECURSIVE split(_, _)
split(chars, sep) ==
    IF \A i \in 1..Len(chars) : chars[i] # sep THEN <<chars>>
    ELSE LET k == CHOOSE i \in 1..Len(chars) :
                      chars[i] = sep /\ \A j \in 1..(i - 1) : chars[j] # sep
         IN <<SubSeq(chars, 1, k - 1)>> \o split(SubSeq(chars, k + 1, Len(chars)), sep)

(* Array.prototype.pop : the last element *)
pop(seq) == seq[Len(seq)]

fileExtensionNoLowerCase(file) == pop(split(file.name, "."))

(* file.name.split(".").pop().toLowerCase() *)
fileExtension(file) == toLowerCase(pop(split(file.name, ".")))

FileNames ==
    {<<"a", ".", "c", "s", "v">>,
     <<"A", ".", "C", "S", "V">>,
     <<"a", ".", "c", "s", "v", ".", "t", "x", "t">>,
     <<"a", ".", "b", ".", "x", "l", "s">>,
     <<"b", ".", "X", "l", "s", "x">>,
     <<"c", "s", "v">>}

ExampleTable ==
    <<[Date |-> Jan5, ProductName |-> <<"A">>, TotalRevenue |-> 100, QuantitySold |-> 10],
      [Date |-> Jan6, ProductName |-> <<"B">>, TotalRevenue |-> 50, QuantitySold |-> 5],
      [Date |-> Feb1, ProductName |-> <<"A">>, TotalRevenue |-> 200, QuantitySold |-> 20]>>

OtherTable ==
    <<[Date |-> Feb, ProductName |-> <<"B">>, TotalRevenue |-> 70, QuantitySold |-> 7],
      [Date |-> Feb, ProductName |-> <<"B">>, TotalRevenue |-> 30, QuantitySold |-> 3]>>

Contents ==
    [table : {ExampleTable, OtherTable}, malformed : BOOLEAN]

NoFile == [present |-> FALSE, name |-> <<>>, content |-> [table |-> <<>>, malformed |-> FALSE]]

Files == [present : {TRUE}, name : FileNames, content : Contents]

(* Papa.parse(file, {header: true}) : every field is delivered as text; a  *)
(* line cut short yields a row holding the fields it has, and an entry in  *)
(* result.errors                                                           *)
PapaParse(content) ==
    LET n == Len(content.table)
        asText(line) == Row(Str(line.Date), Str(line.ProductName),
                            Str(ToString(Num(line.TotalRevenue))),
                            Str(ToString(Num(line.QuantitySold))))
        cut(line) == Row(Str(line.Date), Undefined, Undefined, Undefined)
    IN [data |-> [i \in 1..n |->
                    IF content.malformed /\ i = n THEN cut(content.table[i])
                    ELSE asText(content.table[i])],
        errors |-> content.malformed]

(* XLSX.utils.sheet_to_json(ws) : text cells as text, numeric cells as     *)
(* numbers                                                                 *)
sheet_to_json(content) ==
    [i \in 1..Len(content.table) |->
        Row(Str(content.table[i].Date), Str(content.table[i].ProductName),
            Num(content.table[i].TotalRevenue), Num(content.table[i].QuantitySold))]

(* XLSX.read raises on bytes that are no workbook *)
XLSXReadRaises(content) == content.malformed

Parse(id, kind, file) == [id |-> id, kind |-> kind, file |-> file]

(* const charts = data ? createChartData(data) : null *)
chartsOf(dt) == IF dt.isNull THEN NoCharts ELSE createChartData(dt.rows)

charts == chartsOf(data)

handleFileChange(file) ==
    /\ Len(selected) < MaxSelect
    /\ selected' = Append(selected, file)
    /\ pending' =
         IF ~file.present THEN pending
         ELSE IF fileExtension(file) = <<"c", "s", "v">>
         THEN pending \cup {Parse(Len(selected) + 1, "csv", file)}
         ELSE IF \/ fileExtension(file) = <<"x", "l", "s">>
                 \/ fileExtension(file) = <<"x", "l", "s", "x">>
         THEN pending \cup {Parse(Len(selected) + 1, "xlsx", file)}
         ELSE pending
    /\ UNCHANGED <<data, rows, result, expressMajor, req, sent>>

(* complete: (result) => setData(result.data) *)
PapaComplete(p) ==
    /\ p \in pending
    /\ p.kind = "csv"
    /\ data' = [isNull |-> FALSE, rows |-> PapaParse(p.file.content).data]
    /\ pending' = pending \ {p}
    /\ UNCHANGED <<selected, rows, result, expressMajor, req, sent>>

(* reader.onload: XLSX.read, sheet_to_json of the first sheet, setData *)
ReaderOnload(p) ==
    /\ p \in pending
    /\ p.kind = "xlsx"
    /\ data' = IF XLSXReadRaises(p.file.content) THEN data
               ELSE [isNull |-> FALSE, rows |-> sheet_to_json(p.file.content)]
    /\ pending' = pending \ {p}
    /\ UNCHANGED <<selected, rows, result, expressMajor, req, sent>>

Init ==
    /\ DashboardIdle
    /\ AggregateIdle
    /\ ServerIdle

Next ==
    \/ \E file \in Files \cup {NoFile} : handleFileChange(file)
    \/ \E p \in pending : PapaComplete(p)
    \/ \E p \in pending : ReaderOnload(p)

Spec == Init /\ [][Next]_vars

(***************************************************************************)
(* The upload service (server.js 20-30).                                   *)
(*                                                                         *)
(* The uploaded bytes are drawn from the ASCII codes of  4 0 [ ] " n u l   *)
(* { }.  Over these characters the JSON texts are the numbers, the         *)
(* strings, null, {} and the arrays of at most one element.                *)
(***************************************************************************)
ByteCodes == {52, 48, 91, 93, 34, 110, 117, 108, 123, 125}

(* one character of Buffer.prototype.toString (utf8) *)
CharOfByte(b) ==
    CASE b = 52 -> "4" [] b = 48 -> "0" [] b = 91 -> "[" [] b = 93 -> "]"
      [] b = 34 -> "\"" [] b = 110 -> "n" [] b = 117 -> "u" [] b = 108 -> "l"
      [] b = 123 -> "{" [] b = 125 -> "}"

bufferToString(buffer) == [i \in 1..Len(buffer) |-> CharOfByte(buffer[i])]

JsonNull == [k |-> "null", n |-> 0, s |-> <<>>, items |-> <<>>]

JsonNumber(k) == [k |-> "num", n |-> k, s |-> <<>>, items |-> <<>>]

JsonString(chars) == [k |-> "str", n |-> 0, s |-> chars, items |-> <<>>]

JsonArray(items) == [k |-> "arr", n |-> 0, s |-> <<>>, items |-> items]

JsonObject == [k |-> "obj", n |-> 0, s |-> <<>>, items |-> <<>>]

SyntaxError == [raises |-> TRUE, value |-> JsonNull]

Parsed(v) == [raises |-> FALSE, value |-> v]

(* JSON.parse *)
RECURSIVE JSONparse(_)
JSONparse(text) ==
    LET n == Len(text)
        inner == SubSeq(text, 2, n - 1)
    IN CASE n = 0 -> SyntaxError
         [] text = <<"n", "u", "l", "l">> -> Parsed(JsonNull)
         [] n > 0 /\ (\A i \in 1..n : IsDigit(text[i])) ->
              IF n > 1 /\ text[1] = "0" THEN SyntaxError
              ELSE Parsed(JsonNumber(DigitsValue(text, 0)))
         [] n >= 2 /\ text[1] = "\"" /\ text[n] = "\"" ->
              IF \E i \in 1..Len(inner) : inner[i] = "\"" THEN SyntaxError
              ELSE Parsed(JsonString(inner))
         [] text = <<"{", "}">> -> Parsed(JsonObject)
         [] n >= 2 /\ text[1] = "[" /\ text[n] = "]" ->
              IF inner = <<>> THEN Parsed(JsonArray(<<>>))
              ELSE IF JSONparse(inner).raises THEN SyntaxError
              ELSE Parsed(JsonArray(<<JSONparse(inner).value>>))
         [] OTHER -> SyntaxError

NoFileUploaded == <<"N", "o", " ", "f", "i", "l", "e", " ", "u", "p", "l", "o", "a", "d", "e", "d", ".">>

InvalidJsonFile == <<"I", "n", "v", "a", "l", "i", "d", " ", "J", "S", "O", "N", " ", "f", "i", "l", "e", ".">>

TextBody(chars) == [kind |-> "text", text |-> chars, json |-> JsonNull]

JsonBody(v) == [kind |-> "json", text |-> <<>>, json |-> v]

Response(status, body) == [status |-> status, body |-> body]

(* statuses.message[code] for the codes the model's numbers reach *)
StatusMessage(code) ==
    CASE code = 400 -> <<"B", "a", "d", " ", "R", "e", "q", "u", "e", "s", "t">>
      [] code = 404 -> <<"N", "o", "t", " ", "F", "o", "u", "n", "d">>
      [] OTHER -> <<>>

(* res.status(status).send(value).  A text is sent as it is, null as an    *)
(* empty body, an object or array through res.json.  A lone number is      *)
(* res.send(status) in Express 4: it becomes the status code, the body is  *)
(* the status message, and writing the head raises a RangeError for a code *)
(* outside 100..999; Express 5 sends a number through res.json.            *)
send(major, status, value) ==
    CASE value.k = "str" ->
           [raises |-> FALSE, response |-> Response(status, TextBody(value.s))]
      [] value.k = "null" ->
           [raises |-> FALSE, response |-> Response(status, TextBody(<<>>))]
      [] value.k = "num" /\ major = 4 ->
           IF value.n < 100 \/ value.n > 999
           THEN [raises |-> TRUE, response |-> Response(value.n, TextBody(<<>>))]
           ELSE [raises |-> FALSE,
                 response |-> Response(value.n, TextBody(StatusMessage(value.n)))]
      [] OTHER ->
           [raises |-> FALSE, response |-> Response(status, JsonBody(value))]

(* multer's upload.single("file") has set req.file (or left it unset) *)
PostUpload(hasFile, buffer) ==
    /\ req.phase = "idle"
    /\ req' = [phase |-> "received", hasFile |-> hasFile, buffer |-> buffer]
    /\ sent' = <<>>
    /\ UNCHANGED <<expressMajor, rows, result, selected, pending, data>>

uploadHandler ==
    /\ req.phase = "received"
    /\ sent' =
         IF ~req.hasFile
         THEN Append(sent, Response(400, TextBody(NoFileUploaded)))
         ELSE LET jsonData == JSONparse(bufferToString(req.buffer))
                  out == send(expressMajor, 200, jsonData.value)
              IN IF jsonData.raises \/ out.raises
                 THEN Append(sent, Response(400, TextBody(InvalidJsonFile)))
                 ELSE Append(sent, out.response)
    /\ req' = [req EXCEPT !.phase = "done"]
    /\ UNCHANGED <<expressMajor, rows, result, selected, pending, data>>

(* the request is over; the service keeps nothing of it *)
requestEnd ==
    /\ req.phase = "done"
    /\ req' = NoRequest
    /\ sent' = <<>>
    /\ UNCHANGED <<expressMajor, rows, result, selected, pending, data>>

InitUpload ==
    /\ expressMajor \in {4, 5}
    /\ req = NoRequest
    /\ sent = <<>>
    /\ DashboardIdle
    /\ AggregateIdle

NextUpload ==
    \/ PostUpload(FALSE, <<>>)
    \/ \E buffer \in SeqsUpTo(ByteCodes, MaxBytes) : PostUpload(TRUE, buffer)
    \/ uploadHandler
    \/ requestEnd

SpecUpload == InitUpload /\ [][NextUpload]_vars

(***************************************************************************)
(* Properties of createChartData, checked under SpecAggregate.             *)
(***************************************************************************)
Returned == result.status = "returned"

(* the value of a chart point as a number *)
Value(v) == ToNumber(v)

RECURSIVE NumericTotal(_)
NumericTotal(values) ==
    IF values = <<>> THEN Num(0)
    ELSE Plus(Value(Head(values)), NumericTotal(Tail(values)))

(* the + fold of column `field` over the rows 1..k whose index is in keep, *)
(* row by row                                                              *)
RECURSIVE FoldRows(_, _, _, _)
FoldRows(d, k, field, keep) ==
    IF k = 0 THEN Num(0)
    ELSE IF k \in keep
         THEN Plus(FoldRows(d, k - 1, field, keep), d[k][field])
         ELSE FoldRows(d, k - 1, field, keep)

(* the index of the first key that is v *)
FirstIndex(keys, v) ==
    CHOOSE i \in 1..Len(keys) : keys[i] = v /\ \A j \in 1..(i - 1) : keys[j] # v

(* labels are the distinct keys, in first-occurrence order *)
DistinctInOrder(labels, keys) ==
    /\ \A i \in 1..Len(keys) : \E k \in 1..Len(labels) : labels[k] = keys[i]
    /\ \A k \in 1..Len(labels) : \E i \in 1..Len(keys) : labels[k] = keys[i]
    /\ \A k, m \in 1..Len(labels) :
         k < m => FirstIndex(keys, labels[k]) < FirstIndex(keys, labels[m])

IsDigits(chars) == chars # <<>> /\ \A i \in 1..Len(chars) : IsDigit(chars[i])

(* text of the form M/D/2023 *)
IsMonthDay2023(v) ==
    /\ v.t = "str"
    /\ \E i, j \in 1..Len(v.s) :
         /\ i < j
         /\ IsDigits(SubSeq(v.s, 1, i - 1))
         /\ v.s[i] = "/"
         /\ IsDigits(SubSeq(v.s, i + 1, j - 1))
         /\ SubSeq(v.s, j, Len(v.s)) = YearSuffix

MonthPart(item) == SplitFirst(item.Date.s, "/")

(* On rows whose Total Revenue cells are numbers, the values of the        *)
(* productRevenue series and of the revenueOverTime series have the same   *)
(* sum, whatever the Product Name cells.                                   *)
RevenueConservedOnNumbers ==
    (Returned /\ \A i \in 1..Len(rows) : rows[i].TotalRevenue.t = "num") =>
        NumericTotal(result.productRevenueChart.data)
            = NumericTotal(result.revenueOverTime.data)

(* C6: createChartData returns the six datasets for every row sequence,    *)
(* without raising, and for the empty sequence every labels sequence and   *)
(* every series is empty.                                                  *)
C6_Total ==
    /\ result.status # "TypeError"
    /\ (Returned /\ rows = <<>>) =>
         /\ result.revenueOverTime = [labels |-> <<>>, data |-> <<>>]
         /\ result.productRevenueChart = [labels |-> <<>>, data |-> <<>>]
         /\ result.quantitySoldChart = [labels |-> <<>>, data |-> <<>>]
         /\ result.averageRevenueChart = [labels |-> <<>>, data |-> <<>>]
         /\ result.scatterPlotData = [data |-> <<>>]
         /\ result.monthlyGrowthChart = [labels |-> <<>>, data |-> <<>>]

ProductOf(item) == item.ProductName

(* C8: in every result, productRevenue, quantitySold and averageRevenue    *)
(* share one labels sequence, the distinct Product Name values in          *)
(* first-occurrence order; each series has one value per label, computed   *)
(* from exactly the rows of that label; monthlyGrowth has one value per    *)
(* month label.                                                            *)
C8_SeriesAlignedWithLabels ==
    Returned =>
        LET labels == result.productRevenueChart.labels
            revenueOf(k) ==
                FoldRows(rows, Len(rows), "TotalRevenue",
                         {i \in 1..Len(rows) : ProductOf(rows[i]) = labels[k]})
            quantityOf(k) ==
                FoldRows(rows, Len(rows), "QuantitySold",
                         {i \in 1..Len(rows) : ProductOf(rows[i]) = labels[k]})
        IN /\ result.quantitySoldChart.labels = labels
           /\ result.averageRevenueChart.labels = labels
           /\ DistinctInOrder(labels, [i \in 1..Len(rows) |-> ProductOf(rows[i])])
           /\ Len(result.productRevenueChart.data) = Len(labels)
           /\ Len(result.quantitySoldChart.data) = Len(labels)
           /\ Len(result.averageRevenueChart.data) = Len(labels)
           /\ \A k \in 1..Len(labels) :
                /\ result.productRevenueChart.data[k] = revenueOf(k)
                /\ result.quantitySoldChart.data[k] = quantityOf(k)
                /\ result.averageRevenueChart.data[k] = Div(revenueOf(k), quantityOf(k))
           /\ Len(result.monthlyGrowthChart.data) = Len(result.monthlyGrowthChart.labels)

C8_Witness ==
    /\ Returned
    /\ Len(rows) = 3
    /\ rows[1].ProductName = rows[3].ProductName
    /\ rows[1].ProductName # rows[2].ProductName
    /\ Len(result.productRevenueChart.labels) = 2
    /\ Len(result.monthlyGrowthChart.labels) = 2

(* C9: for every non-empty row sequence the monthlyGrowth series starts    *)
(* with 0, and for i > 0 with a non-zero previous month revenue            *)
(* monthlyGrowth[i] = (monthlyRevenue[i] - monthlyRevenue[i-1])            *)
(*                    / monthlyRevenue[i-1] * 100,                         *)
(* the revenues taken as numbers and the quotient as one exact fraction.   *)
C9_MonthlyGrowthFormula ==
    (Returned /\ rows # <<>>) =>
        LET growth == result.monthlyGrowthChart.data
            revenue == monthlyRevenue(rows)
        IN /\ Len(growth) = Len(revenue)
           /\ Len(growth) >= 1
           /\ growth[1] = Num(0)
           /\ \A i \in 2..Len(growth) :
                LET current == Value(revenue[i])
                    previous == Value(revenue[i - 1])
                IN (current.t = "num" /\ previous.t = "num" /\ previous.n # 0) =>
                      growth[i] =
                          Rat(100 * (current.n * previous.d - previous.n * current.d),
                              previous.n * current.d)

C9_Witness ==
    /\ Returned
    /\ Len(result.monthlyGrowthChart.data) = 2
    /\ Value(monthlyRevenue(rows)[1]).t = "num"
    /\ Value(monthlyRevenue(rows)[1]).n > 0
    /\ Value(monthlyRevenue(rows)[2]).n > 0
    /\ result.monthlyGrowthChart.data[2].t = "num"
    /\ result.monthlyGrowthChart.data[2].n # 0

(***************************************************************************)
(* Properties of the Dashboard component, checked under Spec.              *)
(***************************************************************************)
Csv == <<"c", "s", "v">>

Xls == <<"x", "l", "s">>

Xlsx == <<"x", "l", "s", "x">>

SameIgnoringCase(a, b) ==
    /\ Len(a) = Len(b)
    /\ \A i \in 1..Len(a) :
         \/ a[i] = b[i]
         \/ \E k \in 1..26 : {a[i], b[i]} = {UpperCase[k], LowerCase[k]}

(* ext is, up to case, the text after the last "." of name (the whole name *)
(* when it holds no ".")                                                   *)
ExtensionIs(name, ext) ==
    \E k \in 0..Len(name) :
        /\ k = 0 \/ name[k] = "."
        /\ \A j \in (k + 1)..Len(name) : name[j] # "."
        /\ SameIgnoringCase(SubSeq(name, k + 1, Len(name)), ext)

(* the sum, as numbers, of column `field` over the rows whose index is in keep *)
RECURSIVE ArithmeticSum(_, _, _, _)
ArithmeticSum(d, k, field, keep) ==
    IF k = 0 THEN 0
    ELSE ArithmeticSum(d, k - 1, field, keep)
           + (IF k \in keep THEN Value(d[k][field]).n ELSE 0)

(* C2: for rows whose dates all have the form M/D/2023 (the amounts being  *)
(* numbers, as in the example of three rows), monthlyRevenue[i] is the sum *)
(* of Total Revenue over the rows whose month (the text of Date before its *)
(* first "/") is the i-th distinct month: [150, 200] for the example.      *)
C2_MonthlyRevenueSumsMonth ==
    ( /\ charts.status = "returned"
      /\ \A i \in 1..Len(data.rows) :
            /\ IsMonthDay2023(data.rows[i].Date)
            /\ data.rows[i].TotalRevenue.t = "num" ) =>
        LET d == data.rows
            monthParts == SetSpread([i \in 1..Len(d) |-> MonthPart(d[i])])
            revenue == monthlyRevenue(d)
        IN /\ Len(revenue) = Len(monthParts)
           /\ \A i \in 1..Len(monthParts) :
                revenue[i] =
                    Num(ArithmeticSum(d, Len(d), "TotalRevenue",
                            {k \in 1..Len(d) : MonthPart(d[k]) = monthParts[i]}))

(* C3: when the parse of a well-formed CSV file completes, the values of   *)
(* the productRevenue and quantitySold series are the arithmetic sums of   *)
(* Total Revenue and Quantity Sold over the rows of each product.          *)
C3_CsvAmountsSummedAsNumbers ==
    [][\A p \in pending :
          (p.kind = "csv" /\ ~p.file.content.malformed /\ pending' = pending \ {p}) =>
             LET d == data'.rows
                 c == chartsOf(data')
                 labels == c.productRevenueChart.labels
                 rowsOf(k) == {i \in 1..Len(d) : d[i].ProductName = labels[k]}
             IN /\ c.status = "returned"
                /\ \A k \in 1..Len(labels) :
                     /\ c.productRevenueChart.data[k]
                          = Num(ArithmeticSum(d, Len(d), "TotalRevenue", rowsOf(k)))
                     /\ c.quantitySoldChart.data[k]
                          = Num(ArithmeticSum(d, Len(d), "QuantitySold", rowsOf(k)))
      ]_vars

(* C4: the values of the productRevenue series and the values of the       *)
(* revenueOverTime series have the same sum.                               *)
C4_RevenueConserved ==
    charts.status = "returned" =>
        NumericTotal(charts.productRevenueChart.data)
            = NumericTotal(charts.revenueOverTime.data)

(* C5: the data state only ever changes to the complete row sequence of a  *)
(* well-formed file whose parse was in flight.                             *)
C5_NoPartialRows ==
    [][data' # data =>
          \E p \in pending :
             /\ ~p.file.content.malformed
             /\ data' = [isNull |-> FALSE,
                         rows |-> IF p.kind = "csv"
                                  THEN PapaParse(p.file.content).data
                                  ELSE sheet_to_json(p.file.content)]
      ]_vars

(* C7: a selection whose extension is csv (up to case) starts a CSV parse, *)
(* xls or xlsx a spreadsheet read; any other selection, or none, starts    *)
(* nothing; the selection itself leaves the data state alone, and the data *)
(* state later changes only when a parse so started completes.             *)
C7_DispatchOnExtension ==
    [][ /\ Len(selected') = Len(selected) + 1 =>
             LET file == selected'[Len(selected')]
                 id == Len(selected')
             IN /\ data' = data
                /\ pending' =
                     IF file.present /\ ExtensionIs(file.name, Csv)
                     THEN pending \cup {Parse(id, "csv", file)}
                     ELSE IF file.present /\ (\/ ExtensionIs(file.name, Xls)
                                              \/ ExtensionIs(file.name, Xlsx))
                     THEN pending \cup {Parse(id, "xlsx", file)}
                     ELSE pending
        /\ data' # data =>
             \E p \in pending :
                /\ pending' = pending \ {p}
                /\ p.file = selected[p.id]
                /\ \/ p.kind = "csv" /\ ExtensionIs(p.file.name, Csv)
                   \/ p.kind = "xlsx" /\ (\/ ExtensionIs(p.file.name, Xls)
                                          \/ ExtensionIs(p.file.name, Xlsx))
      ]_vars

C7_Witness ==
    /\ Len(selected) = 2
    /\ selected[1].present
    /\ selected[1].name = <<"a", ".", "c", "s", "v", ".", "t", "x", "t">>
    /\ selected[2].name = <<"A", ".", "C", "S", "V">>
    /\ pending = {}
    /\ data = [isNull |-> FALSE, rows |-> PapaParse(selected[2].content).data]

Supported(file) ==
    /\ file.present
    /\ fileExtension(file) \in {Csv, Xls, Xlsx}

Delivered(file) ==
    IF fileExtension(file) = Csv THEN PapaParse(file.content).data
    ELSE sheet_to_json(file.content)

(* C10: once every in-flight parse of a run of well-formed supported files *)
(* has completed, the data state is that of the most recently selected     *)
(* file.                                                                   *)
C10_LastSelectedWins ==
    ( /\ pending = {}
      /\ Len(selected) >= 1
      /\ \A i \in 1..Len(selected) :
            Supported(selected[i]) /\ ~selected[i].content.malformed ) =>
        data = [isNull |-> FALSE, rows |-> Delivered(selected[Len(selected)])]

(***************************************************************************)
(* Properties of the upload service, checked under SpecUpload.             *)
(***************************************************************************)
(* the body is the parsed value: its JSON text, or the text of a string *)
BodyCarries(body, v) ==
    \/ body.kind = "json" /\ body.json = v
    \/ v.k = "str" /\ body.kind = "text" /\ body.text = v.s

(* C1: a request gets exactly one response: 400 "No file uploaded." when   *)
(* there is no file, 400 "Invalid JSON file." when the file's bytes are no *)
(* JSON text, and otherwise 200 with the parsed JSON value as body.        *)
C1_ResponseCases ==
    /\ Len(sent) <= 1
    /\ req.phase = "done" =>
         /\ Len(sent) = 1
         /\ LET jsonData == JSONparse(bufferToString(req.buffer))
            IN CASE ~req.hasFile ->
                      sent[1] = Response(400, TextBody(NoFileUploaded))
                 [] req.hasFile /\ jsonData.raises ->
                      sent[1] = Response(400, TextBody(InvalidJsonFile))
                 [] OTHER ->
                      /\ sent[1].status = 200
                      /\ BodyCarries(sent[1].body, jsonData.value)

(* The statuses and bodies the service sends for a file that is JSON text: *)
(* besides 200, a number n in 100..999 is answered with status n under     *)
(* Express 4, any other number with 400.                                   *)
UploadStatusOfValidJson ==
    (req.phase = "done" /\ req.hasFile
        /\ ~JSONparse(bufferToString(req.buffer)).raises) =>
        LET v == JSONparse(bufferToString(req.buffer)).value
        IN IF v.k = "num" /\ expressMajor = 4
           THEN sent[1].status = (IF v.n >= 100 /\ v.n <= 999 THEN v.n ELSE 400)
           ELSE sent[1].status = 200

====
